---- MODULE Spec2Model ----
(***************************************************************************)
(* Model of the queue-driven crawl service of fastAPI-scraper:             *)
(* app/services.py (ScrapingService) as a state machine, with the two      *)
(* HTTP front ends that drive it: api.py (one ScrapingService) and         *)
(* api_multitenant.py (MultiTenantScrapingService: one ScrapingService per *)
(* tenant, a RateLimiter and one monitor coroutine per accepted task).     *)
(*                                                                         *)
(* The service runs on one asyncio event loop.  A coroutine only yields at *)
(* an await of real I/O, so the code between two such awaits is one atomic *)
(* step.  The awaits of a crawl run are: the discovery probes              *)
(* (_find_centralized_urls), every page fetch (_scrape_url) and every      *)
(* webhook post (_send_callback).  get_task is synchronous, reads the      *)
(* state without changing it and can run between any two steps: what a     *)
(* status poll returns in a state is the value of get_task in that state.  *)
(*                                                                         *)
(* The request handlers and the methods of RateLimiter are coroutines that *)
(* await nothing but each other: a handler runs from its first line to its *)
(* answer as one atomic step.  The monitor of a task yields at its         *)
(* asyncio.sleep.                                                          *)
(*                                                                         *)
(* Task ids are uuid4 values, unique across services, so the maps of the   *)
(* per-tenant ScrapingService instances are modelled as one map each, and  *)
(* _tenant_services records which task ids are in which instance.          *)
(*                                                                         *)
(* Python's None is modelled as the empty sequence and a present value x   *)
(* as <<x>>.                                                               *)
(***************************************************************************)
EXTENDS Integers, Sequences, FiniteSets, TLC

VARIABLES
    tasks,            \* ScrapingService._tasks: task id -> ScrapeResult
    queues,           \* ScrapingService._processing_queues: task id -> list of URLs
    processed_urls,   \* ScrapingService._processed_urls: task id -> set of URLs
    all_content,      \* ScrapingService._all_content: task id -> list of page entries
    run,              \* the process_queue coroutine of each task: position and locals
    posts,            \* per task, the webhook payloads handed to session.post, in order
    hist,             \* per task, history: what was fetched, what failed, what was queued
    rate_limiter,     \* RateLimiter: request_counts and concurrent_tasks per tenant
    _tenant_services, \* MultiTenantScrapingService._tenant_services: tenant -> task ids
                      \* held by the tenant's ScrapingService
    _tenant_stats,    \* MultiTenantScrapingService._tenant_stats
    monitors,         \* the _monitor_task_completion coroutines alive: task id -> tenant
    now,              \* datetime.now(), in ticks
    response,         \* the answer to the last POST /scrape (api_multitenant: with
                      \* the API key and the knowledge base of the request)
    submitted,        \* per task created through api_multitenant, history: the API key
                      \* of the request and the time of its acceptance
    normalization     \* a URL handed to _normalize_url, what the call returned and
                      \* what the call on that result returned (None: no such call)

crawl_vars == <<tasks, queues, processed_urls, all_content, run, posts, hist>>
tenant_vars == <<rate_limiter, _tenant_services, _tenant_stats, monitors, now, submitted>>
vars == <<tasks, queues, processed_urls, all_content, run, posts, hist,
          rate_limiter, _tenant_services, _tenant_stats, monitors, now, response,
          submitted, normalization>>

-----------------------------------------------------------------------------
(* Bounds of the model *)

MaxLimit == 2         \* largest page limit a request carries
MaxLinks == 2         \* most raw links the renderer reports for one page

MaxTime == 2          \* last tick the clock reaches

(* Program constants *)

DefaultLimit == 10    \* `task.limit or 10`
RequestDefaultLimit == 10       \* `limit=request.limit or 10` of scrape_endpoint
max_requests_per_minute == 20   \* RateLimiter.max_requests_per_minute
max_concurrent_tasks == 5       \* RateLimiter.max_concurrent_tasks
max_pages_per_task == 500       \* RateLimiter.max_pages_per_task
active_tasks_limit == 5         \* the literal of `["active_tasks"] >= 5`
OneMinute == 2                  \* timedelta(minutes=1), in ticks of 30 seconds

TaskIds == {"t1"}     \* ids uuid4 can hand out

None == <<>>
Some(x) == <<x>>

-----------------------------------------------------------------------------
(* URLs.  A URL string scheme://netloc/path?query#fragment is the record   *)
(*   www  : the host starts with "www."                                    *)
(*   dom  : the host without that prefix                                   *)
(*   stem : the path without its leading slash and trailing slashes        *)
(*   ts   : the number of slashes that end the path ("" stem: the whole    *)
(*          path is ts slashes, so ts = 0 is the empty path, 1 is "/")     *)
(*   qf   : the URL carries a query string or a fragment                   *)

Url(www, dom, stem, ts, qf) ==
    [www |-> www, dom |-> dom, stem |-> stem, ts |-> ts, qf |-> qf]

U_root    == Url(FALSE, "ex.com", "", 1, FALSE)         \* https://ex.com/
U_a       == Url(FALSE, "ex.com", "a", 0, FALSE)        \* https://ex.com/a
U_a_slash == Url(FALSE, "ex.com", "a", 1, FALSE)        \* https://ex.com/a/
U_www_b   == Url(TRUE, "ex.com", "b", 0, FALSE)         \* https://www.ex.com/b
U_www_b_q == Url(TRUE, "ex.com", "b", 0, TRUE)          \* https://www.ex.com/b?x=1#top
U_png     == Url(FALSE, "ex.com", "p.png", 0, FALSE)    \* https://ex.com/p.png
U_other_c == Url(FALSE, "other.com", "c", 0, FALSE)     \* https://other.com/c
U_other_d == Url(FALSE, "other.com", "d", 0, FALSE)     \* https://other.com/d

AssetStems == {"p.png"}
StemOrder == <<"", "a", "b", "c", "d", "p.png">>

\* urlparse(url).netloc
netloc(u) == <<u.www, u.dom>>

\* netloc.replace('www.', '')
StripWww(n) == <<FALSE, n[2]>>

\* parsed.path is the empty string
PathEmpty(u) == u.stem = "" /\ u.ts = 0

\* parsed.path == '/'
PathIsSlash(u) == u.stem = "" /\ u.ts = 1

\* parsed.path.endswith(('.jpg', '.jpeg', '.png', '.gif', '.css', '.js'))
PathEndsWithAsset(u) == u.ts = 0 /\ u.stem \in AssetStems

\* ScrapingService._normalize_url
_normalize_url(u) ==
    LET normalized == [u EXCEPT !.qf = FALSE]     \* scheme://netloc + path
    IN  IF ~PathIsSlash(normalized) /\ normalized.ts > 0
        THEN [normalized EXCEPT !.ts = @ - 1]     \* normalized[:-1]
        ELSE normalized

\* Order of the URL strings, as sorted() compares them
StemRank(s) == CHOOSE i \in 1..Len(StemOrder) : StemOrder[i] = s
HostRank(u) == (IF u.www THEN 2 ELSE 0) + (IF u.dom = "ex.com" THEN 0 ELSE 1)
UrlLess(a, b) ==
    \/ HostRank(a) < HostRank(b)
    \/ /\ HostRank(a) = HostRank(b)
       /\ \/ StemRank(a.stem) < StemRank(b.stem)
          \/ /\ a.stem = b.stem
             /\ \/ a.ts < b.ts
                \/ a.ts = b.ts /\ ~a.qf /\ b.qf

RECURSIVE SortedList(_)
SortedList(S) ==
    IF S = {} THEN <<>>
    ELSE LET m == CHOOSE x \in S : \A y \in S : ~UrlLess(y, x)
         IN  <<m>> \o SortedList(S \ {m})

\* The link filter of _scrape_url: the links of the page fetched at `url`
FilterLinks(url, links) ==
    LET base_domain_clean == StripWww(netloc(url))
        kept == { _normalize_url(link) : link \in
                    { l \in links :
                        LET n == _normalize_url(l)
                        IN  /\ StripWww(netloc(n)) = base_domain_clean
                            /\ ~PathEmpty(n)
                            /\ ~PathIsSlash(n)
                            /\ ~PathEndsWithAsset(n) } }
    IN  SortedList(kept)


-----------------------------------------------------------------------------
(* The environment: what requests carry and what the network answers *)

Seeds == {U_root, U_a_slash}                      \* seed URLs of requests
Limits == (-1)..MaxLimit                          \* limit values of requests
CallbackUrls == {None, Some("https://hook/cb")}   \* callback_url of requests
RawLinks == {U_root, U_a_slash, U_www_b_q, U_png, U_other_d}     \* links pages may carry
DiscoverPool == {U_root, U_other_c}               \* URLs the discovery files may list
Texts == {"lorem"}                                \* cleaned page texts
CentralizedFiles == <<"/llm.txt", "/sitemap.xml", "/robots.txt">>

\* What one discovery probe yields: None when the file is unavailable (network
\* error, timeout, non-200, or a parse that finds nothing), else the URLs parsed
\* from it (_parse_text_file, _parse_sitemap_xml)
FileOutcomes == {None} \cup { Some(<<u>>) : u \in DiscoverPool }

\* What one page fetch yields: None when _scrape_url raises, else the cleaned
\* text and the raw links the page.evaluate script returns
FetchOutcomes ==
    {None} \cup
    { Some([content |-> txt, links |-> ls]) :
        txt \in Texts, ls \in { S \in SUBSET RawLinks : Cardinality(S) <= MaxLinks } }

\* What one webhook post yields
CallbackOutcomes == {"ok", "http_error", "unreachable"}

SeqToSet(s) == { s[i] : i \in 1..Len(s) }
InSeq(x, s) == \E i \in 1..Len(s) : s[i] = x

\* The orders in which list(set(xs)) may list the distinct elements of xs
Permutations_(S) ==
    { p \in [1..Cardinality(S) -> S] : \A i, j \in 1..Cardinality(S) : p[i] = p[j] => i = j }

RECURSIVE Concat(_)
Concat(ss) == IF ss = <<>> THEN <<>> ELSE Head(ss) \o Concat(Tail(ss))

\* _find_centralized_urls without the `response.status == 200` test: the body
\* of an error answer is parsed like a file
_find_centralized_urls_NoStatusCheck(probes) ==
    LET centralized_urls ==
            Concat([i \in 1..Len(CentralizedFiles) |->
                        IF probes[i] = None THEN <<U_other_c>> ELSE probes[i][1]])
    IN  Permutations_(SeqToSet(centralized_urls))

\* ScrapingService._find_centralized_urls: the lists it may return when the
\* three probes yield `probes`
_find_centralized_urls(probes) ==
    LET centralized_urls ==
            Concat([i \in 1..Len(CentralizedFiles) |->
                        IF probes[i] = None THEN <<>> ELSE probes[i][1]])
    IN  Permutations_(SeqToSet(centralized_urls))

-----------------------------------------------------------------------------
(* ScrapingService *)

\* `limit = task.limit or 10`
EffectiveLimit(task) == IF task.limit = 0 THEN DefaultLimit ELSE task.limit

\* NewTask stored with the crawl marked as started
NewTask_Processing(task_id, url, limit) ==
    [id |-> task_id, url |-> url, status |-> "processing", content |-> None,
     links |-> None, error |-> None, completed_at |-> None, limit |-> limit,
     processed_count |-> 0, all_content |-> None]

\* The ScrapeResult that start_scraping stores
NewTask(task_id, url, limit) ==
    [id |-> task_id, url |-> url, status |-> "pending", content |-> None,
     links |-> None, error |-> None, completed_at |-> None, limit |-> limit,
     processed_count |-> 0, all_content |-> None]

\* get_task answering for an unknown id with an empty pending task
get_task_Default(task_id) ==
    LET known == task_id \in DOMAIN tasks
        task == IF known THEN tasks[task_id] ELSE NewTask(task_id, U_root, DefaultLimit)
        queue_size == IF task_id \in DOMAIN queues THEN Len(queues[task_id]) ELSE 0
    IN  Some([id |-> task.id,
              status |-> task.status,
              message |-> <<"Processamento iniciado">>,
              content |-> IF task.status = "completed" THEN task.content ELSE None,
              links |-> IF task.status = "completed" THEN task.links ELSE None,
              error |-> task.error,
              limit |-> task.limit,
              processed_count |-> task.processed_count,
              queue_size |-> queue_size,
              all_content |-> IF task.status = "completed" THEN task.all_content ELSE None])

\* ScrapingService.get_task
get_task(task_id) ==
    IF task_id \notin DOMAIN tasks THEN None
    ELSE
      LET task == tasks[task_id]
          queue_size == IF task_id \in DOMAIN queues THEN Len(queues[task_id]) ELSE 0
          processed_count == task.processed_count
          message ==
              IF task.status = "processing"
              THEN <<"Processando", processed_count, EffectiveLimit(task), queue_size>>
              ELSE IF task.error # None THEN <<"Erro", task.error[1]>>
              ELSE IF task.status = "pending" THEN <<"Processamento iniciado">>
              ELSE <<"Processamento concluido com sucesso">>
      IN  Some([id |-> task.id,
                status |-> task.status,
                message |-> message,
                content |-> IF task.status = "completed" THEN task.content ELSE None,
                links |-> IF task.status = "completed" THEN task.links ELSE None,
                error |-> task.error,
                limit |-> task.limit,
                processed_count |-> processed_count,
                queue_size |-> queue_size,
                all_content |-> IF task.status = "completed" THEN task.all_content ELSE None])

\* CallbackPayload with the content and the links sent whatever the status
CallbackPayload_Unfiltered(task) ==
    [id |-> task.id,
     status |-> task.status,
     content |-> task.content,
     links |-> task.links,
     error |-> task.error]

\* The payload _send_callback posts
CallbackPayload(task) ==
    [id |-> task.id,
     status |-> task.status,
     content |-> IF task.status = "completed" THEN task.content ELSE None,
     links |-> IF task.status = "completed" THEN task.links ELSE None,
     error |-> task.error]

\* LoopHead taking the URL at the tail of the queue
RECURSIVE LoopHead_Lifo(_, _, _, _)
LoopHead_Lifo(queue, seen, processed_count, limit) ==
    IF queue # <<>> /\ processed_count < limit
    THEN LET current_url == queue[Len(queue)]
             rest == SubSeq(queue, 1, Len(queue) - 1)
         IN  IF current_url \in seen
             THEN LoopHead_Lifo(rest, seen, processed_count, limit)
             ELSE [fetching |-> TRUE, queue |-> rest,
                   seen |-> seen \cup {current_url}, current_url |-> Some(current_url)]
    ELSE [fetching |-> FALSE, queue |-> queue, seen |-> seen, current_url |-> None]

\* LoopHead without `self._processed_urls[task_id].add(current_url)`
RECURSIVE LoopHead_NoSeen(_, _, _, _)
LoopHead_NoSeen(queue, seen, processed_count, limit) ==
    IF queue # <<>> /\ processed_count < limit
    THEN LET current_url == Head(queue)
         IN  IF current_url \in seen
             THEN LoopHead_NoSeen(Tail(queue), seen, processed_count, limit)
             ELSE [fetching |-> TRUE, queue |-> Tail(queue),
                   seen |-> seen, current_url |-> Some(current_url)]
    ELSE [fetching |-> FALSE, queue |-> queue, seen |-> seen, current_url |-> None]

\* The head of the while loop of process_queue, run until the next
\* `await self._scrape_url(current_url)` or until the loop is left
RECURSIVE LoopHead(_, _, _, _)
LoopHead(queue, seen, processed_count, limit) ==
    IF queue # <<>> /\ processed_count < limit
    THEN LET current_url == Head(queue)
         IN  IF current_url \in seen
             THEN LoopHead(Tail(queue), seen, processed_count, limit)
             ELSE [fetching |-> TRUE, queue |-> Tail(queue),
                   seen |-> seen \cup {current_url}, current_url |-> Some(current_url)]
    ELSE [fetching |-> FALSE, queue |-> queue, seen |-> seen, current_url |-> None]

\* Admits without the test of the budget
Admits_NoBudget(link, seen, queue, processed_count, limit) ==
    /\ link \notin seen
    /\ ~InSeq(link, queue)

\* Admits without the test `link not in queue`
Admits_NoQueueTest(link, seen, queue, processed_count, limit) ==
    /\ link \notin seen
    /\ Len(queue) + processed_count < limit

\* The admission test of one in-page link
Admits(link, seen, queue, processed_count, limit) ==
    /\ link \notin seen
    /\ ~InSeq(link, queue)
    /\ Len(queue) + processed_count < limit

\* CountPage without the increment
CountPage_Skipped(task) == task

\* `task.processed_count += 1`
CountPage(task) == [task EXCEPT !.processed_count = @ + 1]

\* `for link in result["links"]: ... append(link)`: the queue after the loop
RECURSIVE EnqueueLinks(_, _, _, _, _)
EnqueueLinks(links, seen, queue, processed_count, limit) ==
    IF links = <<>> THEN queue
    ELSE EnqueueLinks(Tail(links), seen,
                      IF Admits(Head(links), seen, queue, processed_count, limit)
                      THEN Append(queue, Head(links)) ELSE queue,
                      processed_count, limit)

\* The entry appended to _all_content for a fetched page
PageEntry(current_url, content, links) ==
    [url |-> current_url, content |-> content, links_found |-> Len(links)]

\* AllContentText with the sections joined in reverse order
AllContentText_Reversed(items) ==
    [i \in 1..Len(items) |-> [header |-> items[Len(items) + 1 - i].url,
                              body |-> items[Len(items) + 1 - i].content]]

\* all_content_text of _finalize_task: the sections joined by blank lines, each
\* "=== url ===" followed by the page's content
AllContentText(items) ==
    [i \in 1..Len(items) |-> [header |-> items[i].url, body |-> items[i].content]]

\* FinalizedTask with the content left unset when the status is written
FinalizedTask_StatusFirst(task, items) ==
    [task EXCEPT !.status = "completed",
                 !.links = Some(<<>>),
                 !.all_content = Some(items),
                 !.completed_at = Some("now")]

\* FinalizedTask with the status left as it was
FinalizedTask_NoStatus(task, items) ==
    [task EXCEPT !.content = Some(AllContentText(items)),
                 !.links = Some(<<>>),
                 !.all_content = Some(items),
                 !.completed_at = Some("now")]

\* FinalizedTask marking a crawl without any page as FAILED
FinalizedTask_FailedWhenEmpty(task, items) ==
    [task EXCEPT !.status = IF items = <<>> THEN "failed" ELSE "completed",
                 !.content = Some(AllContentText(items)),
                 !.links = Some(<<>>),
                 !.all_content = Some(items),
                 !.completed_at = Some("now")]

\* The task as the field updates of _finalize_task leave it
FinalizedTask(task, items) ==
    [task EXCEPT !.status = "completed",
                 !.content = Some(AllContentText(items)),
                 !.links = Some(<<>>),
                 !.all_content = Some(items),
                 !.completed_at = Some("now")]

\* FailedTask with the error message left unset
FailedTask_NoError(task, e) ==
    [task EXCEPT !.status = "failed", !.completed_at = Some("now")]

\* FailedTask putting the task back to PENDING
FailedTask_Requeued(task, e) ==
    [task EXCEPT !.status = "pending", !.error = Some(e), !.completed_at = Some("now")]

\* The task as the except branch of process_queue leaves it
FailedTask(task, e) ==
    [task EXCEPT !.status = "failed", !.error = Some(e), !.completed_at = Some("now")]

\* str(e) of the exception _send_callback raises
CallbackError(outcome) ==
    IF outcome = "http_error" THEN "Erro ao enviar callback: status" ELSE "ClientConnectorError"

\* pop(task_id, None) emptying the whole map
Without_Clear(f, k) == [x \in {} |-> f[x]]

\* pop(task_id, None) left out
Without_Keep(f, k) == f

Without(f, k) == [x \in DOMAIN f \ {k} |-> f[x]]
With(f, k, v) == [x \in DOMAIN f \cup {k} |-> IF x = k THEN v ELSE f[x]]

\* _finalize_task up to its await of _send_callback (or to its end)
_finalize_task(task_id, task, items) ==
    LET done == FinalizedTask(task, items)
        callback_url == run[task_id].callback_url
    IN  /\ tasks' = [tasks EXCEPT ![task_id] = done]
        /\ all_content' = [all_content EXCEPT ![task_id] = items]
        /\ queues' = Without(queues, task_id)
        /\ processed_urls' = Without(processed_urls, task_id)
        /\ IF callback_url # None
           THEN /\ posts' = [posts EXCEPT ![task_id] = Append(@, CallbackPayload(done))]
                /\ run' = [run EXCEPT ![task_id].pc = "finalize_callback",
                                      ![task_id].current_url = None]
           ELSE /\ posts' = posts
                /\ run' = [run EXCEPT ![task_id].pc = "done",
                                      ![task_id].current_url = None]

\* process_queue from the head of its while loop to its next await; h is the
\* task's history record so far
ContinueLoop(task_id, task, queue, seen, items, h) ==
    LET r == LoopHead(queue, seen, task.processed_count, EffectiveLimit(task))
    IN  IF r.fetching
        THEN /\ tasks' = [tasks EXCEPT ![task_id] = task]
             /\ queues' = [queues EXCEPT ![task_id] = r.queue]
             /\ processed_urls' = [processed_urls EXCEPT ![task_id] = r.seen]
             /\ all_content' = [all_content EXCEPT ![task_id] = items]
             /\ run' = [run EXCEPT ![task_id].pc = "scrape",
                                   ![task_id].current_url = r.current_url]
             /\ hist' = [hist EXCEPT ![task_id] =
                            [h EXCEPT !.fetched = Append(@, r.current_url[1])]]
             /\ posts' = posts
        ELSE /\ _finalize_task(task_id, task, items)
             /\ hist' = [hist EXCEPT ![task_id] = h]

-----------------------------------------------------------------------------
(* models.ScrapeResponse and the HTTP answers *)

ScrapeResponseFields ==
    {"id", "status", "message", "content", "links", "error", "limit",
     "processed_count", "queue_size", "all_content"}
RequiredFields == {"id", "status", "message"}

\* ScrapeResponse(**kwargs): None stands for pydantic's ValidationError, raised
\* when a required field is missing; unknown keywords are ignored and optional
\* fields default to None
ScrapeResponse(kwargs) ==
    IF RequiredFields \subseteq DOMAIN kwargs
    THEN Some([f \in ScrapeResponseFields |->
                 IF f \in RequiredFields THEN kwargs[f]
                 ELSE IF f \in DOMAIN kwargs THEN Some(kwargs[f]) ELSE None])
    ELSE None

\* An answer of an endpoint: a status code and a body
Answer(status, body) == Some([status |-> status, body |-> body])

\* raise HTTPException(status_code, detail)
HTTPException(status_code, detail) == Answer(status_code, [detail |-> detail])

-----------------------------------------------------------------------------
(* APIKeyManager *)

api_keys ==
    [test_key_123 |-> [tenant_id |-> "tenant_1", user_id |-> "user_1"],
     demo_key_456 |-> [tenant_id |-> "tenant_1", user_id |-> "user_2"],
     prod_key_789 |-> [tenant_id |-> "tenant_2", user_id |-> "user_3"]]

\* APIKeyManager.tenants: the limits configured per tenant
tenants ==
    [tenant_1 |-> [requests_per_minute |-> 20, max_concurrent_tasks |-> 5],
     tenant_2 |-> [requests_per_minute |-> 15, max_concurrent_tasks |-> 3]]

\* APIKeyManager.knowledge_base_mapping; the only write to it,
\* add_knowledge_base_mapping in start_scraping, stores the tenant that was just
\* read from it for the same knowledge base, so it keeps this value
knowledge_base_mapping ==
    [kb_empresa_a_001 |-> "tenant_1",
     kb_empresa_a_002 |-> "tenant_1",
     kb_empresa_b_001 |-> "tenant_2",
     kb_admin_001 |-> "admin",
     kb_user1_001 |-> "tenant_1",
     kb_user2_001 |-> "tenant_1",
     kb_user3_001 |-> "tenant_2",
     kb_user1_rate_test |-> "tenant_1",
     kb_user3_concurrent_test |-> "tenant_2"]

\* The keys of the two defaultdicts: every tenant a knowledge base maps to
TenantIds == { knowledge_base_mapping[kb] : kb \in DOMAIN knowledge_base_mapping }

verify_and_get_context(api_key) ==
    IF api_key \in DOMAIN api_keys THEN Some(api_keys[api_key]) ELSE None

\* get_tenant_by_knowledge_base answering tenant_1 for an unmapped knowledge base
get_tenant_by_knowledge_base_Default(knowledge_base_id) ==
    IF knowledge_base_id \in DOMAIN knowledge_base_mapping
    THEN Some(knowledge_base_mapping[knowledge_base_id]) ELSE Some("tenant_1")

get_tenant_by_knowledge_base(knowledge_base_id) ==
    IF knowledge_base_id \in DOMAIN knowledge_base_mapping
    THEN Some(knowledge_base_mapping[knowledge_base_id]) ELSE None

\* AccessAllowed with the tenant comparison left out
AccessAllowed_Open(user_tenant, tenant_id) == TRUE

\* The access test of scrape_endpoint: `user_tenant != tenant_id and
\* user_tenant != "admin"` refuses
AccessAllowed(user_tenant, tenant_id) ==
    ~(user_tenant # tenant_id /\ user_tenant # "admin")

-----------------------------------------------------------------------------
(* RateLimiter *)

\* check_rate_limit without the test of concurrent_tasks
check_rate_limit_NoConcurrency(limiter, tenant_id) ==
    LET minute_ago == now - OneMinute
        Recent(req_time) == req_time > minute_ago
        pruned == [limiter EXCEPT !.request_counts[tenant_id] = SelectSeq(@, Recent)]
    IN  [rate_limiter |-> pruned,
         allowed |-> ~(Len(pruned.request_counts[tenant_id]) >= max_requests_per_minute)]

\* check_rate_limit refusing only above max_requests_per_minute
check_rate_limit_OffByOne(limiter, tenant_id) ==
    LET minute_ago == now - OneMinute
        Recent(req_time) == req_time > minute_ago
        pruned == [limiter EXCEPT !.request_counts[tenant_id] = SelectSeq(@, Recent)]
    IN  [rate_limiter |-> pruned,
         allowed |->
            /\ ~(Len(pruned.request_counts[tenant_id]) > max_requests_per_minute)
            /\ ~(pruned.concurrent_tasks[tenant_id] >= max_concurrent_tasks)]

\* RateLimiter.check_rate_limit: the limiter after the pruning of the tenant's
\* window, and the boolean returned
check_rate_limit(limiter, tenant_id) ==
    LET minute_ago == now - OneMinute
        Recent(req_time) == req_time > minute_ago
        pruned == [limiter EXCEPT !.request_counts[tenant_id] = SelectSeq(@, Recent)]
    IN  [rate_limiter |-> pruned,
         allowed |->
            /\ ~(Len(pruned.request_counts[tenant_id]) >= max_requests_per_minute)
            /\ ~(pruned.concurrent_tasks[tenant_id] >= max_concurrent_tasks)]

\* RateLimiter.record_request
record_request(limiter, tenant_id) ==
    [limiter EXCEPT !.request_counts[tenant_id] = Append(@, now),
                    !.concurrent_tasks[tenant_id] = @ + 1]

\* release_task giving two slots back
release_task_Twice(limiter, tenant_id) ==
    IF limiter.concurrent_tasks[tenant_id] > 0
    THEN [limiter EXCEPT !.concurrent_tasks[tenant_id] = IF @ > 1 THEN @ - 2 ELSE 0]
    ELSE limiter

\* release_task taking a slot back from every tenant
release_task_Global(limiter, tenant_id) ==
    [limiter EXCEPT !.concurrent_tasks =
        [x \in DOMAIN @ |-> IF @[x] > 0 THEN @[x] - 1 ELSE @[x]]]

\* RateLimiter.release_task
release_task(limiter, tenant_id) ==
    IF limiter.concurrent_tasks[tenant_id] > 0
    THEN [limiter EXCEPT !.concurrent_tasks[tenant_id] = @ - 1]
    ELSE limiter

\* RateLimiter.validate_limit
validate_limit(limit) == IF limit <= max_pages_per_task THEN limit ELSE max_pages_per_task

-----------------------------------------------------------------------------
(* MultiTenantScrapingService *)

\* _get_service_for_tenant: the instances after the call
_get_service_for_tenant(services, tenant_id) ==
    IF tenant_id \notin DOMAIN services THEN With(services, tenant_id, {}) ELSE services

\* service.get_task(task_id) on the ScrapingService of the tenant
TenantGetTask(services, tenant_id, task_id) ==
    IF task_id \in services[tenant_id] THEN get_task(task_id) ELSE None

\* What GET /status/{task_id} of api_multitenant answers to the API key in the
\* current state (verify_api_key, the endpoint get_task_status and
\* MultiTenantScrapingService.get_task_status)
StatusReply(api_key, task_id) ==
    LET user_context == verify_and_get_context(api_key)
    IN  IF user_context = None THEN HTTPException(401, "Invalid API key")
        ELSE LET tenant_id == user_context[1].tenant_id
                 services == _get_service_for_tenant(_tenant_services, tenant_id)
                 task == TenantGetTask(services, tenant_id, task_id)
             IN  IF task = None THEN HTTPException(404, "Tarefa nao encontrada")
                 ELSE Answer(200, task[1])

-----------------------------------------------------------------------------
(* Actions *)

\* The services as their constructors leave them
Constructed ==
    /\ tasks = <<>>
    /\ queues = <<>>
    /\ processed_urls = <<>>
    /\ all_content = <<>>
    /\ run = <<>>
    /\ posts = <<>>
    /\ hist = <<>>
    /\ rate_limiter = [request_counts |-> [t \in TenantIds |-> <<>>],
                       concurrent_tasks |-> [t \in TenantIds |-> 0]]
    /\ _tenant_services = <<>>
    /\ _tenant_stats = [t \in TenantIds |->
                           [total_requests |-> 0, active_tasks |-> 0,
                            completed_tasks |-> 0, failed_tasks |-> 0]]
    /\ monitors = <<>>
    /\ now = 0
    /\ response = None
    /\ submitted = <<>>

Init ==
    /\ Constructed
    /\ normalization = None

\* ScrapingService.start_scraping(url, callback_url, limit)
start_scraping(task_id, url, callback_url, limit) ==
    /\ task_id \notin DOMAIN tasks
    /\ tasks' = With(tasks, task_id, NewTask(task_id, url, limit))
    /\ queues' = With(queues, task_id, <<>>)
    /\ processed_urls' = With(processed_urls, task_id, {})
    /\ all_content' = With(all_content, task_id, <<>>)
    /\ run' = With(run, task_id, [pc |-> "created", initial_url |-> url,
                                  callback_url |-> callback_url, current_url |-> None])
    /\ posts' = With(posts, task_id, <<>>)
    /\ hist' = With(hist, task_id, [fetched |-> <<>>, failed |-> {}, appended |-> <<>>,
                                    seeded |-> None, discovered |-> None,
                                    unavailable |-> FALSE])

\* process_queue up to `await self._find_centralized_urls(initial_url)`
process_queue_begin(task_id) ==
    /\ task_id \in DOMAIN run
    /\ run[task_id].pc = "created"
    /\ tasks' = [tasks EXCEPT ![task_id].status = "processing"]
    /\ run' = [run EXCEPT ![task_id].pc = "discover"]
    /\ UNCHANGED <<queues, processed_urls, all_content, posts, hist>>
    /\ UNCHANGED <<tenant_vars, response, normalization>>

\* SeededQueue with the seed appended behind the centralized URLs
SeededQueue_SeedLast(queue, initial_url, centralized_urls) ==
    LET extended == queue \o centralized_urls
    IN  IF ~InSeq(initial_url, centralized_urls)
        THEN extended \o <<initial_url>> ELSE extended

\* The queue after `extend(centralized_urls)` and the `insert(0, initial_url)`
\* made when the seed is not among the centralized URLs
SeededQueue(queue, initial_url, centralized_urls) ==
    LET extended == queue \o centralized_urls
    IN  IF ~InSeq(initial_url, centralized_urls)
        THEN <<initial_url>> \o extended ELSE extended

\* process_queue from the return of _find_centralized_urls to its next await;
\* probes are the outcomes of the three probes and centralized_urls the list
\* _find_centralized_urls returned for them
process_queue_seed(task_id, probes, centralized_urls) ==
    /\ task_id \in DOMAIN run
    /\ run[task_id].pc = "discover"
    /\ LET initial_url == run[task_id].initial_url
           queue == SeededQueue(queues[task_id], initial_url, centralized_urls)
       IN  ContinueLoop(task_id, tasks[task_id], queue, processed_urls[task_id],
                        all_content[task_id],
                        [hist[task_id] EXCEPT
                            !.seeded = Some(queue),
                            !.discovered = Some(centralized_urls),
                            !.unavailable = \A i \in DOMAIN probes : probes[i] = None])
    /\ UNCHANGED <<tenant_vars, response, normalization>>

\* process_queue from the return of `await self._scrape_url(current_url)` to its
\* next await; outcome is None when the fetch raised
process_queue_scraped(task_id, outcome) ==
    /\ task_id \in DOMAIN run
    /\ run[task_id].pc = "scrape"
    /\ LET task == tasks[task_id]
           current_url == run[task_id].current_url[1]
           limit == EffectiveLimit(task)
       IN  IF outcome = None
           THEN \* except Exception: continue
                ContinueLoop(task_id, task, queues[task_id], processed_urls[task_id],
                             all_content[task_id],
                             [hist[task_id] EXCEPT !.failed = @ \cup {current_url}])
           ELSE LET links == FilterLinks(current_url, outcome[1].links)
                    items == Append(all_content[task_id],
                                    PageEntry(current_url, outcome[1].content, links))
                    queue == EnqueueLinks(links, processed_urls[task_id], queues[task_id],
                                          task.processed_count, limit)
                    appended == SubSeq(queue, Len(queues[task_id]) + 1, Len(queue))
                    counted == CountPage(task)
                IN  ContinueLoop(task_id, counted, queue, processed_urls[task_id], items,
                                 [hist[task_id] EXCEPT !.appended = @ \o appended])
    /\ UNCHANGED <<tenant_vars, response, normalization>>

\* The return of the `await self._send_callback(callback_url, task)` of
\* _finalize_task: on success the run ends; an exception leaves _finalize_task
\* and is caught by the except branch of process_queue
finalize_callback_returns(task_id, outcome) ==
    /\ task_id \in DOMAIN run
    /\ run[task_id].pc = "finalize_callback"
    /\ IF outcome = "ok"
       THEN /\ run' = [run EXCEPT ![task_id].pc = "done"]
            /\ UNCHANGED <<tasks, posts>>
       ELSE LET failed == FailedTask(tasks[task_id], CallbackError(outcome))
            IN  /\ tasks' = [tasks EXCEPT ![task_id] = failed]
                /\ IF run[task_id].callback_url # None
                   THEN /\ posts' = [posts EXCEPT
                                        ![task_id] = Append(@, CallbackPayload(failed))]
                        /\ run' = [run EXCEPT ![task_id].pc = "except_callback"]
                   ELSE /\ posts' = posts
                        /\ run' = [run EXCEPT ![task_id].pc = "done"]
    /\ UNCHANGED <<queues, processed_urls, all_content, hist>>
    /\ UNCHANGED <<tenant_vars, response, normalization>>

\* The return of the `await self._send_callback(callback_url, task)` of the
\* except branch: its own exception is caught and logged
except_callback_returns(task_id, outcome) ==
    /\ task_id \in DOMAIN run
    /\ run[task_id].pc = "except_callback"
    /\ run' = [run EXCEPT ![task_id].pc = "done"]
    /\ UNCHANGED <<tasks, queues, processed_urls, all_content, posts, hist>>
    /\ UNCHANGED <<tenant_vars, response, normalization>>

-----------------------------------------------------------------------------
(* api.py *)

\* POST /scrape of api.py: scrape_url
scrape_url(task_id, url, callback_url, limit) ==
    /\ start_scraping(task_id, url, callback_url, limit)
    /\ LET answer == ScrapeResponse([task_id |-> task_id,
                                     status |-> "pending",
                                     message |-> <<"Scraping iniciado", url, limit>>,
                                     url |-> url,
                                     limit |-> limit,
                                     processed_count |-> 0,
                                     queue_size |-> 0])
       IN  response' = IF answer = None
                       THEN \* except Exception as e
                            HTTPException(500, "Erro interno")
                       ELSE Answer(200, answer[1])
    /\ UNCHANGED <<tenant_vars, normalization>>

-----------------------------------------------------------------------------
(* api_multitenant.py and MultiTenantScrapingService *)

\* The answer to a POST /scrape together with the request it answers
AnswerTo(api_key, knowledge_base_id, answer) ==
    Some([api_key |-> api_key, knowledge_base_id |-> knowledge_base_id,
          status |-> answer[1].status, body |-> answer[1].body])

\* A request that is answered without a task being created
Refuse(limiter, answer) ==
    /\ rate_limiter' = limiter
    /\ response' = answer
    /\ UNCHANGED <<crawl_vars, _tenant_services, _tenant_stats, monitors, now, submitted,
                   normalization>>

\* MultiTenantScrapingService.start_scraping as called by scrape_endpoint, with
\* the endpoint's answer: a ValueError becomes the 500 of `except Exception`
tenant_start_scraping(limiter, api_key, task_id, tenant_id, url, limit, callback_url, knowledge_base_id) ==
    LET checked == check_rate_limit(limiter, tenant_id)
    IN  IF ~checked.allowed
        THEN Refuse(checked.rate_limiter,
                    AnswerTo(api_key, knowledge_base_id,
                             HTTPException(500, "Erro interno: Rate limit excedido")))
        ELSE IF _tenant_stats[tenant_id].active_tasks >= active_tasks_limit
        THEN Refuse(checked.rate_limiter,
                    AnswerTo(api_key, knowledge_base_id,
                             HTTPException(500, "Erro interno: Limite de tarefas concorrentes atingido")))
        ELSE LET validated_limit == validate_limit(limit)
                 services == _get_service_for_tenant(_tenant_services, tenant_id)
             IN  /\ rate_limiter' = record_request(checked.rate_limiter, tenant_id)
                 /\ _tenant_stats' = [_tenant_stats EXCEPT
                                         ![tenant_id].total_requests = @ + 1,
                                         ![tenant_id].active_tasks = @ + 1]
                 /\ start_scraping(task_id, url, callback_url, validated_limit)
                 /\ _tenant_services' = [services EXCEPT ![tenant_id] = @ \cup {task_id}]
                 /\ monitors' = With(monitors, task_id, tenant_id)
                 /\ submitted' = With(submitted, task_id, [api_key |-> api_key, at |-> now])
                 /\ response' = AnswerTo(api_key, knowledge_base_id,
                                    Answer(200, ScrapeResponse(
                                       [id |-> task_id,
                                        status |-> "pending",
                                        message |-> <<"Scraping iniciado", knowledge_base_id>>])[1]))
                 /\ now' = now
                 /\ UNCHANGED normalization

\* POST /scrape of api_multitenant.py: verify_api_key and scrape_endpoint
scrape_endpoint(api_key, task_id, knowledge_base_id, url, callback_url, limit) ==
    LET user_context == verify_and_get_context(api_key)
        tenant_id == get_tenant_by_knowledge_base(knowledge_base_id)
    IN  IF user_context = None
        THEN Refuse(rate_limiter, AnswerTo(api_key, knowledge_base_id,
                                           HTTPException(401, "Invalid API key")))
        ELSE IF tenant_id = None
        THEN Refuse(rate_limiter, AnswerTo(api_key, knowledge_base_id,
                                           HTTPException(400, "Knowledge base nao encontrada")))
        ELSE IF ~AccessAllowed(user_context[1].tenant_id, tenant_id[1])
        THEN Refuse(rate_limiter, AnswerTo(api_key, knowledge_base_id,
                                           HTTPException(403, "Acesso negado")))
        ELSE LET checked == check_rate_limit(rate_limiter, tenant_id[1])
             IN  IF ~checked.allowed
                 THEN Refuse(checked.rate_limiter,
                             AnswerTo(api_key, knowledge_base_id,
                                      HTTPException(429, "Rate limit excedido")))
                 ELSE tenant_start_scraping(checked.rate_limiter, api_key, task_id,
                                            tenant_id[1], url,
                                            IF limit = 0 THEN RequestDefaultLimit ELSE limit,
                                            callback_url, knowledge_base_id)

\* POST /scrape of api_multitenant.py when the checks pass and
\* service.start_scraping raises: the except branch of
\* MultiTenantScrapingService.start_scraping gives the slot back and re-raises,
\* and the endpoint answers 500
scrape_endpoint_launch_fails(api_key, knowledge_base_id) ==
    LET user_context == verify_and_get_context(api_key)
        tenant_id == get_tenant_by_knowledge_base(knowledge_base_id)
    IN  /\ user_context # None
        /\ tenant_id # None
        /\ AccessAllowed(user_context[1].tenant_id, tenant_id[1])
        /\ LET checked == check_rate_limit(rate_limiter, tenant_id[1])
               recorded == record_request(checked.rate_limiter, tenant_id[1])
           IN  /\ checked.allowed
               /\ _tenant_stats[tenant_id[1]].active_tasks < active_tasks_limit
               /\ rate_limiter' = release_task(recorded, tenant_id[1])
               /\ _tenant_stats' = [_tenant_stats EXCEPT
                                       ![tenant_id[1]].total_requests = @ + 1,
                                       ![tenant_id[1]].active_tasks = (@ + 1) - 1]
               /\ _tenant_services' = _get_service_for_tenant(_tenant_services, tenant_id[1])
               /\ response' = AnswerTo(api_key, knowledge_base_id,
                                       HTTPException(500, "Erro interno: start_scraping"))
        /\ UNCHANGED <<crawl_vars, monitors, now, submitted, normalization>>

\* GET /status/{task_id} of api_multitenant.py: what the request changes (the
\* answer is StatusReply): the ScrapingService of the key's tenant is created
\* when it does not exist yet
get_task_status(api_key, task_id) ==
    LET user_context == verify_and_get_context(api_key)
    IN  /\ _tenant_services' =
              IF user_context = None THEN _tenant_services
              ELSE _get_service_for_tenant(_tenant_services, user_context[1].tenant_id)
        /\ UNCHANGED <<crawl_vars, rate_limiter, _tenant_stats, monitors, now, response,
                       submitted, normalization>>

\* One round of the loop of _monitor_task_completion, after its sleep
_monitor_task_completion(task_id) ==
    /\ task_id \in DOMAIN monitors
    /\ LET tenant_id == monitors[task_id]
           task == TenantGetTask(_tenant_services, tenant_id, task_id)
       IN  IF task = None
           THEN /\ monitors' = Without(monitors, task_id)
                /\ UNCHANGED <<rate_limiter, _tenant_stats>>
           ELSE IF task[1].status \in {"completed", "failed"}
           THEN /\ rate_limiter' = release_task(rate_limiter, tenant_id)
                /\ _tenant_stats' =
                      IF task[1].status = "completed"
                      THEN [_tenant_stats EXCEPT ![tenant_id].active_tasks = @ - 1,
                                                 ![tenant_id].completed_tasks = @ + 1]
                      ELSE [_tenant_stats EXCEPT ![tenant_id].active_tasks = @ - 1,
                                                 ![tenant_id].failed_tasks = @ + 1]
                /\ monitors' = Without(monitors, task_id)
           ELSE UNCHANGED <<rate_limiter, _tenant_stats, monitors>>
    /\ UNCHANGED <<crawl_vars, _tenant_services, now, response, submitted, normalization>>

\* Time passes
Tick ==
    /\ now < MaxTime
    /\ now' = now + 1
    /\ UNCHANGED <<crawl_vars, rate_limiter, _tenant_services, _tenant_stats, monitors,
                   response, submitted, normalization>>

-----------------------------------------------------------------------------
(* The single-tenant deployment: api.py over one ScrapingService *)

Next ==
    \/ \E task_id \in TaskIds, url \in Seeds, callback_url \in CallbackUrls, limit \in Limits :
          scrape_url(task_id, url, callback_url, limit)
    \/ \E task_id \in TaskIds : process_queue_begin(task_id)
    \/ \E task_id \in TaskIds, probes \in [1..Len(CentralizedFiles) -> FileOutcomes] :
          \E centralized_urls \in _find_centralized_urls(probes) :
             process_queue_seed(task_id, probes, centralized_urls)
    \/ \E task_id \in TaskIds, outcome \in FetchOutcomes :
          process_queue_scraped(task_id, outcome)
    \/ \E task_id \in TaskIds, outcome \in CallbackOutcomes :
          finalize_callback_returns(task_id, outcome)
    \/ \E task_id \in TaskIds, outcome \in CallbackOutcomes :
          except_callback_returns(task_id, outcome)

Spec == Init /\ [][Next]_vars

-----------------------------------------------------------------------------
(* The multi-tenant deployment: api_multitenant.py.  The sites crawled have no *)
(* discovery file and one page without links.                                 *)

QuietProbes == [i \in 1..Len(CentralizedFiles) |-> None]
PlainPage == Some([content |-> "lorem", links |-> {}])

\* The uuid4 of the next task: ids are handed out in the order of the pool
FreshIds(pool) ==
    IF pool \subseteq DOMAIN tasks THEN {}
    ELSE {CHOOSE i \in pool \ DOMAIN tasks : \A j \in pool \ DOMAIN tasks : i <= j}

MultiTenantTaskIds == 1..3
RequestKeys == DOMAIN api_keys \cup {"no_such_key"}
RequestKnowledgeBases == {"kb_empresa_a_001", "kb_empresa_b_001", "kb_admin_001", "kb_unknown"}

\* Requests of all tenants and status polls, in any interleaving
NextMultiTenant ==
    \/ \E api_key \in RequestKeys, knowledge_base_id \in RequestKnowledgeBases,
          task_id \in FreshIds(MultiTenantTaskIds) :
          scrape_endpoint(api_key, task_id, knowledge_base_id, U_root, None, 1)
    \/ \E api_key \in RequestKeys, task_id \in MultiTenantTaskIds :
          get_task_status(api_key, task_id)
    \/ \E task_id \in MultiTenantTaskIds : process_queue_begin(task_id)
    \/ \E task_id \in MultiTenantTaskIds : process_queue_seed(task_id, QuietProbes, <<>>)
    \/ \E task_id \in MultiTenantTaskIds : process_queue_scraped(task_id, PlainPage)
    \/ \E task_id \in MultiTenantTaskIds : _monitor_task_completion(task_id)

SpecMultiTenant == Init /\ [][NextMultiTenant]_vars

\* The requests of test_rate_limiting and test_concurrent_tasks
LoadRequests ==
    {[api_key |-> "test_key_123", knowledge_base_id |-> "kb_user1_rate_test"],
     [api_key |-> "prod_key_789", knowledge_base_id |-> "kb_user3_concurrent_test"]}

LoadTaskIds == 1..(max_concurrent_tasks + 1)

\* One tenant submits requests while its earlier tasks are running
NextLoad ==
    \/ \E request \in LoadRequests, task_id \in FreshIds(LoadTaskIds) :
          /\ \A t \in DOMAIN submitted : submitted[t].api_key = request.api_key
          /\ scrape_endpoint(request.api_key, task_id, request.knowledge_base_id,
                             U_root, None, 1)
    \/ \E task_id \in LoadTaskIds : process_queue_begin(task_id)
    \/ \E task_id \in LoadTaskIds : process_queue_seed(task_id, QuietProbes, <<>>)
    \/ \E task_id \in LoadTaskIds : process_queue_scraped(task_id, PlainPage)
    \/ \E task_id \in LoadTaskIds : _monitor_task_completion(task_id)

SpecLoad == Init /\ [][NextLoad]_vars

RateTaskIds == 1..(max_requests_per_minute + 2)

\* One tenant submits a request whenever its previous task has been released,
\* while time passes
NextRate ==
    \/ \E request \in LoadRequests, task_id \in FreshIds(RateTaskIds) :
          /\ monitors = <<>>
          /\ \A t \in DOMAIN submitted : submitted[t].api_key = request.api_key
          /\ scrape_endpoint(request.api_key, task_id, request.knowledge_base_id,
                             U_root, None, 1)
    \/ \E task_id \in RateTaskIds : process_queue_begin(task_id)
    \/ \E task_id \in RateTaskIds : process_queue_seed(task_id, QuietProbes, <<>>)
    \/ \E task_id \in RateTaskIds : process_queue_scraped(task_id, PlainPage)
    \/ \E task_id \in RateTaskIds : _monitor_task_completion(task_id)
    \/ Tick

SpecRate == Init /\ [][NextRate]_vars


\* The tenant of LoadRequests that submits one request only, and the one that
\* submits until it is refused
LightRequest == [api_key |-> "test_key_123", knowledge_base_id |-> "kb_user1_rate_test"]
HeavyRequest == [api_key |-> "prod_key_789", knowledge_base_id |-> "kb_user3_concurrent_test"]

NeighbourTaskIds == 1..(max_concurrent_tasks + 2)

\* The tasks created by requests with the API key
SubmittedBy(api_key) == {t \in DOMAIN submitted : submitted[t].api_key = api_key}

\* Two tenants at once: one submits until max_concurrent_tasks of its tasks were
\* accepted and again whenever all of them still run, the other submits a
\* single request at any moment in between
NextNeighbours ==
    \/ \E task_id \in FreshIds(NeighbourTaskIds) :
          /\ \/ Cardinality(SubmittedBy(HeavyRequest.api_key)) < max_concurrent_tasks
             \/ rate_limiter.concurrent_tasks["tenant_2"] = max_concurrent_tasks
          /\ scrape_endpoint(HeavyRequest.api_key, task_id, HeavyRequest.knowledge_base_id,
                             U_root, None, 1)
    \/ \E task_id \in FreshIds(NeighbourTaskIds) :
          /\ \A t \in DOMAIN submitted : submitted[t].api_key # LightRequest.api_key
          /\ scrape_endpoint(LightRequest.api_key, task_id, LightRequest.knowledge_base_id,
                             U_root, None, 1)
    \/ \E task_id \in NeighbourTaskIds : process_queue_begin(task_id)
    \/ \E task_id \in NeighbourTaskIds : process_queue_seed(task_id, QuietProbes, <<>>)
    \/ \E task_id \in NeighbourTaskIds : process_queue_scraped(task_id, PlainPage)
    \/ \E task_id \in NeighbourTaskIds : _monitor_task_completion(task_id)

SpecNeighbours == Init /\ [][NextNeighbours]_vars


-----------------------------------------------------------------------------
(* Two crawls running at once on one ScrapingService: asyncio interleaves     *)
(* their process_queue coroutines at every await                              *)

CrawlIds == {"t1", "t2"}
CrawlLimits == {1, MaxLimit}
LinkedPage == Some([content |-> "lorem", links |-> {U_a_slash, U_www_b_q}])
CrawlOutcomes == {None, LinkedPage}
CrawlCallbackOutcomes == {"ok", "http_error"}

NextTwoCrawls ==
    \/ \E task_id \in CrawlIds, callback_url \in CallbackUrls, limit \in CrawlLimits :
          scrape_url(task_id, U_root, callback_url, limit)
    \/ \E task_id \in CrawlIds : process_queue_begin(task_id)
    \/ \E task_id \in CrawlIds : process_queue_seed(task_id, QuietProbes, <<>>)
    \/ \E task_id \in CrawlIds, outcome \in CrawlOutcomes :
          process_queue_scraped(task_id, outcome)
    \/ \E task_id \in CrawlIds, outcome \in CrawlCallbackOutcomes :
          finalize_callback_returns(task_id, outcome)
    \/ \E task_id \in CrawlIds, outcome \in CrawlCallbackOutcomes :
          except_callback_returns(task_id, outcome)

SpecTwoCrawls == Init /\ [][NextTwoCrawls]_vars

-----------------------------------------------------------------------------
(* One crawl under the assumption that every awaited call returns or fails   *)

\* The sites of the termination check: the discovery files are missing or
\* llm.txt lists a foreign URL; a fetch fails, or gives a page that links back to
\* pages already fetched, or a page that links forward
LiveLimits == {0, 1, MaxLimit}
LiveProbes == {QuietProbes, [QuietProbes EXCEPT ![1] = Some(<<U_other_c>>)]}
CyclePage == Some([content |-> "lorem", links |-> {U_root, U_a_slash}])
LivePages == {None, CyclePage, LinkedPage}

\* One step of the crawl run of the task: the event loop resumes process_queue
\* when the discovery probes, the page fetch or the webhook call it awaits has
\* returned or failed
CrawlStep(task_id) ==
    \/ process_queue_begin(task_id)
    \/ \E probes \in LiveProbes :
          \E centralized_urls \in _find_centralized_urls(probes) :
             process_queue_seed(task_id, probes, centralized_urls)
    \/ \E outcome \in LivePages : process_queue_scraped(task_id, outcome)
    \/ \E outcome \in CallbackOutcomes : finalize_callback_returns(task_id, outcome)
    \/ \E outcome \in CallbackOutcomes : except_callback_returns(task_id, outcome)

NextLive ==
    \/ \E task_id \in TaskIds, url \in Seeds, callback_url \in CallbackUrls, limit \in LiveLimits :
          scrape_url(task_id, url, callback_url, limit)
    \/ \E task_id \in TaskIds : CrawlStep(task_id)

\* Every awaited call returns or fails, and the event loop then runs the crawl
Fairness == \A task_id \in TaskIds : WF_vars(CrawlStep(task_id))

SpecLive == Init /\ [][NextLive]_vars /\ Fairness

-----------------------------------------------------------------------------
(* _normalize_url applied to a URL and again to what it returned              *)

MaxSlashes == 2

\* The URL strings handed to _normalize_url
UrlInputs ==
    { Url(www, dom, stem, ts, qf) :
        www \in BOOLEAN, dom \in {"ex.com", "other.com"}, stem \in SeqToSet(StemOrder),
        ts \in 0..MaxSlashes, qf \in BOOLEAN }

InitNormalize ==
    /\ Constructed
    /\ normalization \in { [url |-> u, once |-> None, twice |-> None] : u \in UrlInputs }

\* normalized = self._normalize_url(url)
normalize_url ==
    /\ normalization.once = None
    /\ normalization' = [normalization EXCEPT !.once = Some(_normalize_url(normalization.url))]
    /\ UNCHANGED <<crawl_vars, tenant_vars, response>>

\* self._normalize_url(normalized)
normalize_again ==
    /\ normalization.once # None
    /\ normalization.twice = None
    /\ normalization' = [normalization EXCEPT !.twice = Some(_normalize_url(normalization.once[1]))]
    /\ UNCHANGED <<crawl_vars, tenant_vars, response>>

NextNormalize == normalize_url \/ normalize_again

SpecNormalize == InitNormalize /\ [][NextNormalize]_vars
-----------------------------------------------------------------------------
(* One tenant whose tasks have webhooks: the monitors poll while the crawls   *)
(* run, fetches and webhook calls fail, and a launch may fail                 *)

AccountingTaskIds == 1..2
MaxFailedLaunches == 1
AccountingRequest == [api_key |-> "test_key_123", knowledge_base_id |-> "kb_empresa_a_001"]

\* One step of the crawl run of a task of the tenant
AccountingCrawlStep(task_id) ==
    \/ process_queue_begin(task_id)
    \/ process_queue_seed(task_id, QuietProbes, <<>>)
    \/ \E outcome \in {None, PlainPage} : process_queue_scraped(task_id, outcome)
    \/ \E outcome \in CallbackOutcomes : finalize_callback_returns(task_id, outcome)
    \/ \E outcome \in CallbackOutcomes : except_callback_returns(task_id, outcome)

NextAccounting ==
    \/ \E task_id \in FreshIds(AccountingTaskIds), callback_url \in CallbackUrls :
          scrape_endpoint(AccountingRequest.api_key, task_id,
                          AccountingRequest.knowledge_base_id, U_root, callback_url, 1)
    \/ /\ _tenant_stats["tenant_1"].total_requests
             < Cardinality(DOMAIN submitted) + MaxFailedLaunches
       /\ scrape_endpoint_launch_fails(AccountingRequest.api_key,
                                       AccountingRequest.knowledge_base_id)
    \/ \E task_id \in AccountingTaskIds : AccountingCrawlStep(task_id)
    \/ \E task_id \in AccountingTaskIds : _monitor_task_completion(task_id)

SpecAccounting == Init /\ [][NextAccounting]_vars

\* Every awaited call of a crawl returns or fails, and the sleep of every
\* monitor ends
AccountingFairness ==
    \A task_id \in AccountingTaskIds :
        /\ WF_vars(AccountingCrawlStep(task_id))
        /\ WF_vars(_monitor_task_completion(task_id))

SpecAccountingLive == Init /\ [][NextAccounting]_vars /\ AccountingFairness


-----------------------------------------------------------------------------
(* Properties *)

Terminal == {"completed", "failed"}

\* The crawl run of the task has left its while loop and gone through
\* _finalize_task's field updates
CrawlEnded(t) == run[t].pc \in {"finalize_callback", "except_callback", "done"}

\* The pages fetched without error, in the order of their fetches
Succeeded(t) ==
    LET Ok(u) == u \notin hist[t].failed
    IN  SelectSeq(hist[t].fetched, Ok)

\* C1: a webhook delivery failure never changes a task's status: a task whose
\* crawl processed a page and finished, and whose "completed" payload was handed
\* to the notifier, stays COMPLETED, and the except branch of the crawl run is
\* never entered because of the notifier.
C1_WebhookFailureKeepsStatus ==
    \A t \in DOMAIN tasks :
        (/\ posts[t] # <<>>
         /\ posts[t][1].status = "completed"
         /\ tasks[t].processed_count >= 1)
            => /\ tasks[t].status = "completed"
               /\ run[t].pc # "except_callback"

\* C2: a task makes one transition into a terminal status and is immutable
\* thereafter: once get_task reports completed or failed, get_task reports the
\* same status, content and error after every further step.
C2_TerminalOnceAndImmutable ==
    [][\A t \in DOMAIN tasks :
          get_task(t)[1].status \in Terminal
              => /\ get_task(t)'[1].status = get_task(t)[1].status
                 /\ get_task(t)'[1].content = get_task(t)[1].content
                 /\ get_task(t)'[1].error = get_task(t)[1].error]_vars

\* C3: in every reachable state the task's processed_count is at most the
\* limit the task was configured with (stated for the limits that are not
\* negative).
C3_ProcessedWithinLimit ==
    \A t \in DOMAIN tasks :
        tasks[t].limit >= 0 => tasks[t].processed_count <= tasks[t].limit

\* C4: within one crawl no two fetches, and no two entries of the per-page
\* list, are for URLs with the same normalized form.
C4_NormalizedUrlOnce ==
    \A t \in DOMAIN tasks :
        /\ \A i, j \in 1..Len(hist[t].fetched) :
              _normalize_url(hist[t].fetched[i]) = _normalize_url(hist[t].fetched[j])
                  => i = j
        /\ \A i, j \in 1..Len(all_content[t]) :
              _normalize_url(all_content[t][i].url) = _normalize_url(all_content[t][j].url)
                  => i = j

\* C5: a crawl with limit 1 whose seed page was fetched ends with exactly one
\* processed page, the seed, and has appended no in-page link to the queue.
C5_LimitOneSeedOnly ==
    \A t \in DOMAIN tasks :
        (/\ tasks[t].limit = 1
         /\ CrawlEnded(t)
         /\ run[t].initial_url \notin hist[t].failed)
            => /\ tasks[t].processed_count = 1
               /\ Len(all_content[t]) = 1
               /\ all_content[t][1].url = run[t].initial_url
               /\ hist[t].appended = <<>>

\* C6: every in-page link appended to the queue has the host of the task's
\* seed URL, "www." stripped on both sides.
C6_LinksOnSeedDomain ==
    \A t \in DOMAIN tasks :
        \A i \in 1..Len(hist[t].appended) :
            StripWww(netloc(hist[t].appended[i])) = StripWww(netloc(run[t].initial_url))

\* C7: in every state in which a poll can run, a get_task answer with status
\* completed carries the content, the links and the per-page list: none of the
\* three is unset.
C7_NoTornCompletedView ==
    \A t \in DOMAIN tasks :
        get_task(t)[1].status = "completed"
            => /\ get_task(t)[1].content # None
               /\ get_task(t)[1].links # None
               /\ get_task(t)[1].all_content # None

\* C7 witness: a poll answers completed, with a page in the content, while the
\* crawl run is suspended in the webhook post of _finalize_task
C7_Witness ==
    \E t \in DOMAIN tasks :
        /\ run[t].pc = "finalize_callback"
        /\ get_task(t)[1].status = "completed"
        /\ get_task(t)[1].content # None
        /\ Len(get_task(t)[1].content[1]) >= 1
        /\ Len(get_task(t)[1].all_content[1]) >= 1

\* C8: a crawl that ended without a processed page because every fetch it made
\* failed leaves the task FAILED with an error message.
C8_NothingFetchedFails ==
    \A t \in DOMAIN tasks :
        (/\ CrawlEnded(t)
         /\ run[t].pc = "done"
         /\ all_content[t] = <<>>
         /\ hist[t].fetched # <<>>
         /\ SeqToSet(hist[t].fetched) \subseteq hist[t].failed)
            => /\ tasks[t].status = "failed"
               /\ tasks[t].error # None

\* C9: when the extraction of a URL raised and at least one other page was
\* processed, the finished task is COMPLETED and no URL whose extraction raised
\* is in the per-page list.
C9_PageFailureStillCompleted ==
    \A t \in DOMAIN tasks :
        (/\ run[t].pc = "done"
         /\ hist[t].failed # {}
         /\ Len(all_content[t]) >= 1)
            => /\ tasks[t].status = "completed"
               /\ \A i \in 1..Len(all_content[t]) : all_content[t][i].url \notin hist[t].failed

\* C10: once the content is set it holds one section per processed page, headed
\* by the page's URL and holding the page's text, in the order in which the
\* pages were processed, and the number of sections is the processed_count.
C10_OneSectionPerPageInOrder ==
    \A t \in DOMAIN tasks :
        tasks[t].content # None
            => LET sections == tasks[t].content[1]
                   pages == Succeeded(t)
               IN  /\ Len(sections) = tasks[t].processed_count
                   /\ Len(sections) = Len(pages)
                   /\ \A i \in 1..Len(sections) :
                         /\ sections[i].header = pages[i]
                         /\ sections[i].body = tasks[t].all_content[1][i].content

\* C10 witness: a finalized task with two sections for two different pages,
\* after a fetch that failed
C10_Witness ==
    \E t \in DOMAIN tasks :
        /\ tasks[t].content # None
        /\ Len(tasks[t].content[1]) = 2
        /\ tasks[t].content[1][1].header # tasks[t].content[1][2].header
        /\ hist[t].failed # {}

\* The order in which URLs entered the queue of the task: the queue as seeded,
\* then the in-page links in the order of their appends
Arrival(t) == hist[t].seeded[1] \o hist[t].appended

\* s is strictly ascending in the order of sorted()
Ascending(s) == \A i, j \in 1..Len(s) : i < j => UrlLess(s[i], s[j])

C12_DiscoveryNeverFails ==
    [][\A t \in DOMAIN tasks :
          /\ run[t].pc = "discover"
                => /\ tasks'[t].status # "failed"
                   /\ tasks'[t].error = None
          /\ tasks'[t].status = "failed" => posts'[t] # <<>>
          /\ hist'[t].unavailable
                => /\ hist'[t].seeded = Some(<<run[t].initial_url>>)
                   /\ \A i \in 1..Len(hist'[t].fetched) :
                         IF i = 1 THEN hist'[t].fetched[i] = run[t].initial_url
                         ELSE InSeq(hist'[t].fetched[i], hist'[t].appended)]_vars

\* C12 witness: all three files were unavailable and the crawl went on to fetch
\* a link found on the seed page
C12_Witness ==
    \E t \in DOMAIN tasks :
        /\ hist[t].unavailable
        /\ Len(hist[t].fetched) >= 2
        /\ tasks[t].status = "processing"

\* C13: the queue the first fetch is taken from holds the centralized URLs and
\* the seed, each once, with the seed at its head when discovery did not return
\* it, and while that first fetch is under way the task is PROCESSING.
C13_SeededQueue ==
    \A t \in DOMAIN tasks :
        hist[t].seeded # None
            => LET queue == hist[t].seeded[1]
                   centralized_urls == hist[t].discovered[1]
                   initial_url == run[t].initial_url
               IN  /\ SeqToSet(queue) = SeqToSet(centralized_urls) \cup {initial_url}
                   /\ \A i, j \in 1..Len(queue) : queue[i] = queue[j] => i = j
                   /\ ~InSeq(initial_url, centralized_urls) => queue[1] = initial_url
                   /\ (run[t].pc = "scrape" /\ Len(hist[t].fetched) = 1)
                         => /\ tasks[t].status = "processing"
                            /\ tasks[t].processed_count = 0
                            /\ <<hist[t].fetched[1]>> \o queues[t] = queue

\* C13 witness: discovery returned a URL other than the seed and the seed is
\* being fetched first, with the discovered URL still queued
C13_Witness ==
    \E t \in DOMAIN tasks :
        /\ hist[t].seeded # None
        /\ hist[t].discovered[1] # <<>>
        /\ ~InSeq(run[t].initial_url, hist[t].discovered[1])
        /\ run[t].pc = "scrape"
        /\ hist[t].fetched = <<run[t].initial_url>>
        /\ queues[t] = hist[t].discovered[1]

\* C14: the step that creates a task leaves its crawl run not yet started, and
\* as long as the run has not started the task is PENDING with processed_count
\* 0, no probe and no fetch made; in every state a poll of a created task is
\* answered with the task's view.
C14_ReturnsWhilePending ==
    [][\A t \in DOMAIN tasks' :
          /\ t \notin DOMAIN tasks => run'[t].pc = "created"
          /\ run'[t].pc = "created"
                => /\ tasks'[t].status = "pending"
                   /\ tasks'[t].processed_count = 0
                   /\ hist'[t].fetched = <<>>
                   /\ hist'[t].discovered = None
                   /\ posts'[t] = <<>>
                   /\ get_task(t)'[1].status = "pending"
                   /\ get_task(t)'[1].processed_count = 0
          /\ get_task(t)' # None
          /\ get_task(t)'[1].id = t]_vars

\* C14 witness: a task was created and its crawl run has not taken a step
C14_Witness ==
    \E t \in DOMAIN tasks :
        /\ run[t].pc = "created"
        /\ get_task(t)[1].status = "pending"
        /\ get_task(t)[1].message = <<"Processamento iniciado">>

\* C16: a task with a callback_url gets exactly one webhook post, made when the
\* task is in a terminal status, and never a second payload; a task without
\* callback_url gets none.
C16_OneWebhookAttempt ==
    \A t \in DOMAIN tasks :
        /\ run[t].callback_url = None => posts[t] = <<>>
        /\ (run[t].callback_url # None /\ tasks[t].processed_count >= 1)
              => /\ Len(posts[t]) <= 1
                 /\ run[t].pc = "done" => Len(posts[t]) = 1
        /\ posts[t] # <<>> => tasks[t].status \in Terminal

\* C15: every POST /scrape that creates a task is answered with a success
\* response that carries the id of the task it created and status "pending".
C15_SubmitAnswersWithId ==
    [][\A t \in DOMAIN tasks' \ DOMAIN tasks :
          /\ response' # None
          /\ response'[1].status = 200
          /\ response'[1].body.id = t
          /\ response'[1].body.status = "pending"]_vars

\* The tenant of a valid API key
TenantOf(api_key) == api_keys[api_key].tenant_id

\* C17: the status endpoint returns a task to every valid API key of the tenant
\* whose key created it, and answers 404 to every valid key of another tenant.
C17_TenantIsolation ==
    \A t \in DOMAIN submitted, api_key \in DOMAIN api_keys :
        LET reply == StatusReply(api_key, t)[1]
        IN  IF TenantOf(api_key) = TenantOf(submitted[t].api_key)
            THEN reply.status = 200 /\ reply.body.id = t
            ELSE reply.status = 404

\* C17 witness: tenant_2 has polled (its service exists and holds no task) while
\* a task of tenant_1 exists, which the other key of tenant_1 is given and the
\* key of tenant_2 is refused
C17_Witness ==
    /\ "tenant_2" \in DOMAIN _tenant_services
    /\ _tenant_services["tenant_2"] = {}
    /\ \E t \in DOMAIN submitted :
          /\ submitted[t].api_key = "test_key_123"
          /\ StatusReply("demo_key_456", t)[1].status = 200
          /\ StatusReply("prod_key_789", t)[1].status = 404

\* The accepted tasks of the tenant whose slot has not been released yet: the
\* tasks whose monitor is alive
Held(tenant_id) == Cardinality({t \in DOMAIN monitors : monitors[t] = tenant_id})

\* The step is a POST /scrape for a knowledge base of the tenant
ScrapeRequestFor(tenant_id) ==
    /\ response' # response
    /\ get_tenant_by_knowledge_base(response'[1].knowledge_base_id) = Some(tenant_id)

\* C18: after every step every tenant holds between 0 and 5 unreleased tasks,
\* as many as its concurrent_tasks counter says, and a POST /scrape for a tenant
\* that holds 5 is answered 429 and creates no task.
C18_ConcurrentTasksBounded ==
    [][\A tenant_id \in TenantIds :
          /\ Held(tenant_id)' \in 0..5
          /\ rate_limiter'.concurrent_tasks[tenant_id] = Held(tenant_id)'
          /\ (Held(tenant_id) = 5 /\ ScrapeRequestFor(tenant_id))
                => /\ response'[1].status = 429
                   /\ DOMAIN tasks' = DOMAIN tasks
                   /\ Held(tenant_id)' = 5]_vars

\* C18 witness: a tenant holds 5 unreleased tasks, some of them still crawling,
\* and its last request was answered 429 although a task id was free
C18_Witness ==
    \E tenant_id \in TenantIds :
        /\ Held(tenant_id) = 5
        /\ Cardinality(DOMAIN tasks) = 5
        /\ \E t \in DOMAIN tasks : tasks[t].status = "processing"
        /\ response[1].status = 429

\* The tasks of the tenant accepted at a tick of the set
AcceptedAt(tenant_id, ticks) ==
    {t \in DOMAIN submitted :
        TenantOf(submitted[t].api_key) = tenant_id /\ submitted[t].at \in ticks}

\* C19: after every step no tenant has more than 20 requests accepted within
\* one minute, whichever minute is taken, and a POST /scrape for a tenant with 20
\* requests accepted in the last minute is answered 429, adds nothing to the
\* tenant's window and creates no task.
C19_RequestsPerMinuteBounded ==
    [][\A tenant_id \in TenantIds :
          /\ \A start \in 0..MaxTime :
                Cardinality(AcceptedAt(tenant_id, start..(start + OneMinute - 1))') <= 20
          /\ (/\ Cardinality(AcceptedAt(tenant_id, (now - OneMinute + 1)..now)) >= 20
              /\ ScrapeRequestFor(tenant_id))
                => /\ response'[1].status = 429
                   /\ DOMAIN tasks' = DOMAIN tasks
                   /\ Len(rate_limiter'.request_counts[tenant_id]) = 20
                   /\ Len(rate_limiter'.request_counts[tenant_id])
                         <= Len(rate_limiter.request_counts[tenant_id])]_vars

\* C19 witness: 20 requests of a tenant were accepted within one minute, the
\* next one, made in that minute at a later tick, was answered 429 and created
\* no task
C19_Witness ==
    \E tenant_id \in TenantIds :
        /\ now >= 1
        /\ Cardinality(AcceptedAt(tenant_id, (now - OneMinute + 1)..now)) = 20
        /\ Cardinality(DOMAIN tasks) = 20
        /\ monitors = <<>>
        /\ response[1].status = 429

\* C20: every tenant is held to the limits configured for it in
\* APIKeyManager.tenants: it never holds more unreleased tasks than its
\* max_concurrent_tasks and never has more requests accepted within the last
\* minute than its requests_per_minute.
C20_ConfiguredLimitsEnforced ==
    \A tenant_id \in DOMAIN tenants :
        /\ Held(tenant_id) <= tenants[tenant_id].max_concurrent_tasks
        /\ Cardinality(AcceptedAt(tenant_id, (now - OneMinute + 1)..now))
              <= tenants[tenant_id].requests_per_minute

\* C21: the page budget under which a task runs is a positive integer no
\* larger than the maximum of 500 pages, whatever limit the request carried.
C21_BudgetPositiveAndClamped ==
    \A t \in DOMAIN tasks :
        /\ EffectiveLimit(tasks[t]) >= 1
        /\ EffectiveLimit(tasks[t]) <= max_pages_per_task

\* C22: every get_task view and every webhook payload carries content, links
\* and (the view) all_content only when the status it reports is completed.
C22_ContentOnlyWhenCompleted ==
    \A t \in DOMAIN tasks :
        /\ get_task(t)[1].status # "completed"
              => /\ get_task(t)[1].content = None
                 /\ get_task(t)[1].links = None
                 /\ get_task(t)[1].all_content = None
        /\ \A i \in 1..Len(posts[t]) :
              posts[t][i].status # "completed"
                  => posts[t][i].content = None /\ posts[t][i].links = None

\* C22 witness: a task that holds content is FAILED; its view and the payload
\* posted for the failure were built from it
C22_Witness ==
    \E t \in DOMAIN tasks :
        /\ tasks[t].status = "failed"
        /\ tasks[t].content # None
        /\ Len(tasks[t].content[1]) >= 1
        /\ Len(posts[t]) = 2
        /\ posts[t][2].status = "failed"

C28_AppendBelowBudget ==
    [][\A t \in DOMAIN tasks :
          Len(hist'[t].appended) > Len(hist[t].appended)
              => (Len(Arrival(t)') - Len(hist[t].fetched)) + tasks[t].processed_count
                    <= EffectiveLimit(tasks[t])]_vars

\* C28 witness: the links of one page filled the budget of the task
C28_Witness ==
    \E t \in DOMAIN tasks :
        /\ tasks[t].limit >= 2
        /\ tasks[t].processed_count = 1
        /\ Len(hist[t].appended) = tasks[t].limit

\* C29: the queue never holds a URL twice and never holds a URL of the seen
\* set; the seen set is the set of the URLs fetched and no queued URL was ever
\* skipped: the fetches and the queue together are the arrivals.
C29_QueueHoldsUnseenOnce ==
    \A t \in DOMAIN queues :
        /\ \A i, j \in 1..Len(queues[t]) : queues[t][i] = queues[t][j] => i = j
        /\ \A i \in 1..Len(queues[t]) : queues[t][i] \notin processed_urls[t]
        /\ processed_urls[t] = SeqToSet(hist[t].fetched)
        /\ hist[t].seeded # None
              => Len(hist[t].fetched) + Len(queues[t]) = Len(Arrival(t))

\* C29 witness: two pages were fetched, the second found through a link, and
\* a URL is still queued
C29_Witness ==
    \E t \in DOMAIN queues :
        /\ Len(hist[t].fetched) >= 2
        /\ hist[t].appended # <<>>
        /\ queues[t] # <<>>

\* C23: for an id that no task creation has returned, get_task gives None and
\* the status endpoint answers 404 (with a detail, no task) to every valid API
\* key; a task record appears only in a step that answers 200 with its id, so a
\* status query creates none.
C23_UnknownIdNotFound ==
    [][/\ \A id \in MultiTenantTaskIds \ DOMAIN tasks :
             /\ get_task(id) = None
             /\ \A api_key \in DOMAIN api_keys :
                   /\ StatusReply(api_key, id)[1].status = 404
                   /\ DOMAIN StatusReply(api_key, id)[1].body = {"detail"}
       /\ \A id \in DOMAIN tasks' \ DOMAIN tasks :
             /\ response' # None
             /\ response'[1].status = 200
             /\ response'[1].body.id = id]_vars

\* C23 witness: tenant_2 has queried the status endpoint (its service exists and
\* holds no task) and tasks of tenant_1 exist, while id 3 was never created and
\* is answered 404
C23_Witness ==
    /\ "tenant_2" \in DOMAIN _tenant_services
    /\ _tenant_services["tenant_2"] = {}
    /\ DOMAIN tasks = {1, 2}
    /\ get_task(3) = None
    /\ StatusReply("prod_key_789", 3)[1].status = 404

\* What the service holds for one task: its record, its queue, its seen set and
\* its per-page list (None where the map has no entry)
EntryOf(f, t) == IF t \in DOMAIN f THEN Some(f[t]) ELSE None
TaskState(t) == <<EntryOf(tasks, t), EntryOf(queues, t), EntryOf(processed_urls, t), EntryOf(all_content, t)>>

\* The step is a step of the crawl run of the task
CrawlStepOf(t) ==
    /\ t \in DOMAIN run
    /\ <<run[t], hist[t], posts[t], TaskState(t)>>' # <<run[t], hist[t], posts[t], TaskState(t)>>

\* C30: a step of the crawl run of task a leaves the record, the queue, the seen
\* set and the per-page list of every other task b of the service unchanged.
C30_CrawlStepFrame ==
    [][\A a \in CrawlIds, b \in CrawlIds :
          (a # b /\ CrawlStepOf(a)) => TaskState(b)' = TaskState(b)]_vars

\* C30 witness: t1 has run to its end and was finalized while t2 is in the
\* middle of its crawl, with a page stored and a link still queued
C30_Witness ==
    /\ "t1" \in DOMAIN run /\ "t2" \in DOMAIN run
    /\ run["t1"].pc = "done"
    /\ "t1" \notin DOMAIN queues
    /\ run["t2"].pc = "scrape"
    /\ "t2" \in DOMAIN queues
    /\ Len(queues["t2"]) >= 1
    /\ Len(all_content["t2"]) >= 1

\* What the service keeps per tenant: the request window, the count of running
\* tasks, the statistics, and whether a request of the tenant would pass
\* check_rate_limit now
Account(tenant_id) ==
    <<rate_limiter.request_counts[tenant_id], rate_limiter.concurrent_tasks[tenant_id],
      _tenant_stats[tenant_id], check_rate_limit(rate_limiter, tenant_id).allowed>>

\* The step is the exit of the monitor of a task of the tenant
MonitorExitFor(tenant_id) ==
    \E t \in DOMAIN monitors : monitors[t] = tenant_id /\ t \notin DOMAIN monitors'

\* C27: a POST /scrape for tenant a, accepted or refused, and the completion of
\* a task of tenant a leave the request window, the running-task count and the
\* statistics of every other tenant b unchanged, and with them the answer
\* check_rate_limit would give b.
C27_TenantsAccountedApart ==
    [][\A a \in TenantIds, b \in TenantIds :
          (a # b /\ (ScrapeRequestFor(a) \/ MonitorExitFor(a)))
             => Account(b)' = Account(b)]_vars

\* C27 witness: tenant_2 was refused with 429 and then one of its tasks
\* completed, while tenant_1 has one running task on its account
C27_Witness ==
    /\ response # None
    /\ response[1].api_key = "prod_key_789"
    /\ response[1].status = 429
    /\ rate_limiter.concurrent_tasks["tenant_2"] = max_concurrent_tasks - 1
    /\ _tenant_stats["tenant_2"].completed_tasks = 1
    /\ Account("tenant_1") = <<<<0>>, 1, [_tenant_stats["tenant_1"] EXCEPT !.active_tasks = 1], TRUE>>

\* C25: every crawl that was started eventually has run to its end with the
\* task in a terminal status, whatever the probes, the fetches and the webhook
\* calls return.
C25_CrawlTerminates ==
    \A t \in TaskIds :
        (t \in DOMAIN tasks)
            ~> (t \in DOMAIN tasks /\ run[t].pc = "done" /\ tasks[t].status \in Terminal)

\* C25 witness: a crawl has ended in a terminal status after a failed fetch and
\* after a page that linked back to a page already fetched
C25_Witness ==
    \E t \in DOMAIN tasks :
        /\ run[t].pc = "done"
        /\ tasks[t].status \in Terminal
        /\ hist[t].failed # {}
        /\ Len(hist[t].fetched) >= 2
        /\ Len(hist[t].appended) >= 1
        /\ Len(hist[t].appended) < tasks[t].processed_count

\* C26: _normalize_url applied to its own result returns that result: for every
\* URL u, _normalize_url(_normalize_url(u)) = _normalize_url(u), also when the
\* path of u ends in more than one slash.
C26_NormalizeIdempotent ==
    (normalization # None /\ normalization.twice # None)
        => normalization.twice = normalization.once

\* How far a status is along PENDING -> PROCESSING -> {COMPLETED, FAILED}
StatusRank(status) == IF status = "pending" THEN 0 ELSE IF status = "processing" THEN 1 ELSE 2

\* C31: a task is created PENDING; in every step its status stays where it is
\* along PENDING -> PROCESSING -> {COMPLETED, FAILED} or moves forward, and it
\* enters COMPLETED or FAILED only from PROCESSING (or from the other terminal
\* status), never from PENDING.
C31_StatusMovesForward ==
    [][/\ \A t \in DOMAIN tasks' \ DOMAIN tasks : tasks'[t].status = "pending"
       /\ \A t \in DOMAIN tasks :
             /\ t \in DOMAIN tasks'
             /\ StatusRank(tasks'[t].status) >= StatusRank(tasks[t].status)
             /\ StatusRank(tasks'[t].status) = 2 => StatusRank(tasks[t].status) >= 1]_vars

\* C31 witness: a task went through all three stages: its run is over, it
\* processed a page while PROCESSING and it is FAILED after having been COMPLETED
C31_Witness ==
    \E t \in DOMAIN tasks :
        /\ run[t].pc = "done"
        /\ tasks[t].processed_count >= 1
        /\ tasks[t].status = "failed"
        /\ posts[t] # <<>>
        /\ posts[t][1].status = "completed"

\* C32: while a task is COMPLETED or FAILED the service holds no queue and no
\* seen set for it and get_task reports queue_size 0, and the task record
\* carries the per-page list, one entry for every page processed.
C32_TerminalTaskHasNoFrontier ==
    \A t \in DOMAIN tasks :
        tasks[t].status \in Terminal
            => /\ t \notin DOMAIN queues
               /\ t \notin DOMAIN processed_urls
               /\ get_task(t)[1].queue_size = 0
               /\ t \in DOMAIN all_content
               /\ tasks[t].all_content = Some(all_content[t])
               /\ Len(all_content[t]) = tasks[t].processed_count

\* C32 witness: a task ended on its budget with a URL still queued, and holds
\* the entries of its pages
C32_Witness ==
    \E t \in DOMAIN tasks :
        /\ tasks[t].status \in Terminal
        /\ hist[t].seeded # None
        /\ Len(Arrival(t)) > Len(hist[t].fetched)
        /\ tasks[t].all_content # None
        /\ Len(tasks[t].all_content[1]) >= 2

\* The step is a POST /scrape with a valid API key
AuthenticatedScrapeRequest ==
    /\ response' # response
    /\ response'[1].api_key \in DOMAIN api_keys

\* The request answered by the step names a knowledge base of the caller's
\* tenant, or the caller is of the tenant "admin"
OwnKnowledgeBase ==
    LET user_tenant == api_keys[response'[1].api_key].tenant_id
    IN  /\ response'[1].knowledge_base_id \in DOMAIN knowledge_base_mapping
        /\ \/ user_tenant = knowledge_base_mapping[response'[1].knowledge_base_id]
           \/ user_tenant = "admin"

\* C33: a POST /scrape is answered 200 only when its knowledge base is mapped
\* to the caller's tenant (or the caller is admin); for an unmapped knowledge
\* base the answer is 400 and for one of another tenant 403, and then no task is
\* created, the rate windows and the running-task counts stay as they were and
\* so do the statistics.
C33_ForeignKnowledgeBaseRefused ==
    [][AuthenticatedScrapeRequest =>
          /\ response'[1].status = 200 => OwnKnowledgeBase
          /\ ~OwnKnowledgeBase =>
                /\ response'[1].status =
                      IF response'[1].knowledge_base_id \in DOMAIN knowledge_base_mapping
                      THEN 403 ELSE 400
                /\ UNCHANGED <<crawl_vars, rate_limiter, _tenant_stats, monitors,
                               _tenant_services, submitted>>]_vars

\* C33 witness: while tenant_1 has a task running, the key of tenant_2 asked for
\* a knowledge base of tenant_1 and was answered 403
C33_Witness ==
    /\ response # None
    /\ response[1].api_key = "prod_key_789"
    /\ response[1].knowledge_base_id = "kb_empresa_a_001"
    /\ response[1].status = 403
    /\ rate_limiter.concurrent_tasks["tenant_1"] = 1
    /\ rate_limiter.concurrent_tasks["tenant_2"] = 0

\* C34: a task started without callback_url is never FAILED and never carries
\* an error, and when its run is over it is COMPLETED with its content set,
\* whatever the discovery probes and the page fetches returned.
C34_NoCallbackNeverFails ==
    \A t \in DOMAIN tasks :
        run[t].callback_url = None
            => /\ tasks[t].status # "failed"
               /\ tasks[t].error = None
               /\ run[t].pc = "done"
                     => /\ tasks[t].status = "completed"
                        /\ tasks[t].content # None

\* C34 witness: a task without callback_url whose discovery found nothing and
\* whose fetches all failed is COMPLETED with no page processed
C34_Witness ==
    \E t \in DOMAIN tasks :
        /\ run[t].callback_url = None
        /\ run[t].pc = "done"
        /\ hist[t].failed # {}
        /\ SeqToSet(hist[t].fetched) \subseteq hist[t].failed
        /\ tasks[t].processed_count = 0
        /\ tasks[t].status = "completed"
        /\ get_task(t)[1].all_content = Some(<<>>)

\* The positions of the URL in the sequence of the fetches of the task
FetchesOf(t, u) == {i \in 1..Len(hist[t].fetched) : hist[t].fetched[i] = u}

\* C37: the step in which a fetch fails leaves processed_count, the per-page
\* list and the appended links as they were, and a URL whose fetch failed was
\* fetched once only, has no per-page entry and is never in the queue again.
C37_FailedUrlSkippedForGood ==
    [][\A t \in DOMAIN tasks :
          /\ hist'[t].failed # hist[t].failed
                => /\ tasks'[t].processed_count = tasks[t].processed_count
                   /\ all_content'[t] = all_content[t]
                   /\ hist'[t].appended = hist[t].appended
          /\ \A u \in hist'[t].failed :
                /\ Cardinality(FetchesOf(t, u)') = 1
                /\ \A i \in 1..Len(all_content'[t]) : all_content'[t][i].url # u
                /\ t \in DOMAIN queues' => ~InSeq(u, queues'[t])]_vars

\* C37 witness: the fetch of https://ex.com/a failed, a page fetched later
\* carried two links of the site, one of them to that URL, and the crawl ended
\* without another fetch of it
C37_Witness ==
    \E t \in DOMAIN tasks :
        /\ run[t].pc = "done"
        /\ U_a \in hist[t].failed
        /\ \E i \in 1..Len(all_content[t]) :
              /\ all_content[t][i].links_found = 2
              /\ \E j \in FetchesOf(t, all_content[t][i].url) :
                    \A k \in FetchesOf(t, U_a) : k < j

\* C38: in every state between two steps of the crawl run, where a status poll
\* can run, the per-page list of the task has as many entries as its
\* processed_count says, which is the processed_count get_task reports.
C38_EntriesMatchProcessedCount ==
    \A t \in DOMAIN tasks :
        /\ Len(all_content[t]) = tasks[t].processed_count
        /\ get_task(t)[1].processed_count = Len(all_content[t])

\* C38 witness: the crawl waits for a fetch after one page was processed and
\* another fetch failed
C38_Witness ==
    \E t \in DOMAIN tasks :
        /\ run[t].pc = "scrape"
        /\ hist[t].failed # {}
        /\ tasks[t].processed_count >= 1
        /\ Len(hist[t].fetched) >= 3

\* The tasks of the tenant, and those among them with the status
TasksOf(tenant_id) ==
    IF tenant_id \in DOMAIN _tenant_services THEN _tenant_services[tenant_id] ELSE {}
TasksWithStatus(tenant_id, status) == {t \in TasksOf(tenant_id) : tasks[t].status = status}

\* All tasks of the tenant have run to their end and their monitors have exited
AllObserved(tenant_id) ==
    \A t \in TasksOf(tenant_id) : run[t].pc = "done" /\ t \notin DOMAIN monitors

\* C35: for every tenant, once all its tasks have run to their end and their
\* monitors have exited, completed_tasks is the number of its tasks that are
\* COMPLETED and failed_tasks the number of its tasks that are FAILED.
C35_StatsMatchFinalStatus ==
    \A tenant_id \in TenantIds :
        AllObserved(tenant_id)
            => /\ _tenant_stats[tenant_id].completed_tasks
                     = Cardinality(TasksWithStatus(tenant_id, "completed"))
               /\ _tenant_stats[tenant_id].failed_tasks
                     = Cardinality(TasksWithStatus(tenant_id, "failed"))

\* The monitors of the tenant that exit in the step
MonitorExits(tenant_id) ==
    {t \in DOMAIN monitors : monitors[t] = tenant_id /\ t \notin DOMAIN monitors'}

\* C36: an accepted request takes one slot (its monitor starts and the
\* tenant's concurrent_tasks and active_tasks rise by one); the slot is given
\* back in the step in which the monitor exits, which happens only when the task
\* is COMPLETED or FAILED and lowers both counters by exactly one; the counters
\* are lowered in no other step, a monitor that has exited never runs again, and
\* every monitor eventually exits.
C36_SlotReleasedOnce ==
    /\ [][\A tenant_id \in TenantIds :
             /\ Cardinality(MonitorExits(tenant_id)) <= 1
             /\ \A t \in MonitorExits(tenant_id) :
                   /\ tasks[t].status \in Terminal
                   /\ rate_limiter'.concurrent_tasks[tenant_id]
                         = rate_limiter.concurrent_tasks[tenant_id] - 1
                   /\ _tenant_stats'[tenant_id].active_tasks
                         = _tenant_stats[tenant_id].active_tasks - 1
             /\ (\/ rate_limiter'.concurrent_tasks[tenant_id]
                       < rate_limiter.concurrent_tasks[tenant_id]
                 \/ _tenant_stats'[tenant_id].active_tasks
                       < _tenant_stats[tenant_id].active_tasks)
                   => MonitorExits(tenant_id) # {}
             /\ \A t \in DOMAIN submitted' \ DOMAIN submitted :
                   TenantOf(submitted'[t].api_key) = tenant_id
                      => /\ t \in DOMAIN monitors'
                         /\ rate_limiter'.concurrent_tasks[tenant_id]
                               = rate_limiter.concurrent_tasks[tenant_id] + 1
                         /\ _tenant_stats'[tenant_id].active_tasks
                               = _tenant_stats[tenant_id].active_tasks + 1
             /\ \A t \in DOMAIN submitted \ DOMAIN monitors : t \notin DOMAIN monitors']_vars
    /\ \A t \in AccountingTaskIds : (t \in DOMAIN monitors) ~> (t \notin DOMAIN monitors)

\* C36 witness: of two accepted tasks one has failed and its slot was given
\* back, while the other is still crawling and holds its slot
C36_Witness ==
    /\ DOMAIN submitted = {1, 2}
    /\ Cardinality(DOMAIN monitors) = 1
    /\ \E t \in DOMAIN submitted \ DOMAIN monitors : tasks[t].status = "failed"
    /\ \E t \in DOMAIN monitors : tasks[t].status = "processing"
    /\ rate_limiter.concurrent_tasks["tenant_1"] = 1
    /\ _tenant_stats["tenant_1"].active_tasks = 1

\* C39: for every tenant total_requests = active_tasks + completed_tasks +
\* failed_tasks, after every request, accepted, refused or failed while
\* launching, and after every exit of a monitor.
C39_RequestsAddUp ==
    \A tenant_id \in TenantIds :
        _tenant_stats[tenant_id].total_requests
            = _tenant_stats[tenant_id].active_tasks
              + _tenant_stats[tenant_id].completed_tasks
              + _tenant_stats[tenant_id].failed_tasks

=============================================================================
